---- MODULE Spec2Model ----
\* Folder comparison (old_versions/gama_3.py): compare_folders scans two
\* trees, compares the common files by SHA-256 digest, and
\* detect_changed_files pairs one-sided files of equal content as renames.
EXTENDS Integers, Sequences, FiniteSets, TLC

\* ---------------------------------------------------------------- bounds
\* Relative paths are 1..MaxPath; their numeric order stands for the order
\* Python's sorted() gives the path strings.
MaxPath == 3

Paths == 1..MaxPath

\* The bytes of a file: the empty file and a one-byte file. The script only
\* ever tests two digests for equality, so two contents give every outcome.
Contents == {<<>>, <<1>>}

\* A file that cannot be opened or read (open() or f.read() raises).
NoAccess == <<-1>>

\* ---------------------------------------------------------------- helpers
\* Python's None, returned by get_file_hash when the read failed.
None == -1
\* An exception that escaped get_file_hash (no caller has a try block).
Raised == -2

ChunkSize == 4096

Range(s) == {s[k] : k \in DOMAIN s}

Min(a, b) == IF a < b THEN a ELSE b

\* sorted(S): the elements of S in ascending order.
RECURSIVE sorted(_)
sorted(S) ==
    IF S = {} THEN <<>>
    ELSE LET m == CHOOSE x \in S : \A y \in S : x <= y
         IN  <<m>> \o sorted(S \ {m})

\* list(S) for a Python set of strings: the iteration order of a set depends
\* on the per-process string hash seed, so any order of S can come out.
ListOrders(S) ==
    {s \in [1..Cardinality(S) -> S] : \A a, b \in DOMAIN s : s[a] = s[b] => a = b}

\* The elements of the list s that are in the set S, in the order of s.
RECURSIVE Keep(_, _)
Keep(s, S) ==
    IF s = <<>> THEN <<>>
    ELSE (IF Head(s) \in S THEN <<Head(s)>> ELSE <<>>) \o Keep(Tail(s), S)

\* A path that is a sub-folder of the tree, not a file.
IsDir == <<-2>>

\* os.walk(folder): the files and the sub-folders it yields. A root that does
\* not exist or cannot be listed makes os.walk yield nothing: its onerror
\* argument is left at None, so the scandir error is swallowed.
os_walk_files(ok, tree) ==
    IF ok THEN {p \in DOMAIN tree : tree[p] # IsDir} ELSE {}
os_walk_dirs(ok, tree) ==
    IF ok THEN {p \in DOMAIN tree : tree[p] = IsDir} ELSE {}

\* get_all_files(folder): the set of relative paths of the files of a tree.
get_all_files(ok, tree) == os_walk_files(ok, tree)

\* hashlib.sha256: update() absorbs a chunk, hexdigest() names the absorbed
\* byte stream. SHA-256 is taken as collision free: the digest is an
\* injective code of the stream (a base-256 numeral with a leading 1).
sha256_update(state, chunk) == state \o chunk

RECURSIVE hexdigest(_)
hexdigest(state) ==
    IF state = <<>> THEN 1
    ELSE hexdigest(SubSeq(state, 1, Len(state) - 1)) * 256 + state[Len(state)]

\* for chunk in iter(lambda: f.read(4096), b""): hash_sha256.update(chunk)
RECURSIVE ReadChunks(_, _, _)
ReadChunks(data, pos, state) ==
    IF pos > Len(data) THEN state
    ELSE LET last == Min(pos + ChunkSize - 1, Len(data))
         IN  ReadChunks(data, last + 1, sha256_update(state, SubSeq(data, pos, last)))

\* A mutant of get_file_hash: no except clause, the read error propagates.
get_file_hash_uncaught(tree, file) ==
    IF tree[file] = NoAccess THEN Raised
    ELSE hexdigest(ReadChunks(tree[file], 1, <<>>))

\* A mutant of get_file_hash: the digest ignores the bytes read.
get_file_hash_constant(tree, file) ==
    IF tree[file] = NoAccess THEN None ELSE 1

\* A mutant of get_file_hash: after a failed read the digest of the bytes
\* absorbed so far (none) is returned instead of None.
get_file_hash_partial(tree, file) ==
    IF tree[file] = NoAccess THEN hexdigest(<<>>)
    ELSE hexdigest(ReadChunks(tree[file], 1, <<>>))

\* get_file_hash(filepath): the digest, or None when open/read raised.
get_file_hash(tree, file) ==
    IF tree[file] = NoAccess THEN None
    ELSE hexdigest(ReadChunks(tree[file], 1, <<>>))

\* ---------------------------------------------------------------- state
VARIABLES
    pc,                     \* position in compare_folders / detect_changed_files
    root1_ok, root2_ok,     \* the root folder exists and can be listed
    tree1, tree2,           \* the two folders: relative path -> bytes or NoAccess
    files1, files2,         \* get_all_files results
    only_in_folder1, only_in_folder2, common_files,
    different_files, identical_files, failed_comparisons,
    total_checked,
    idx,                    \* position of the running for loop in its list
    extra_files1, extra_files2,                \* detect_changed_files arguments
    changed_files,
    unmatched_extra_files1, unmatched_extra_files2,
    order1, order2,         \* iteration order of the two unmatched sets
    hash_to_files1,
    all_files, summary,     \* save_to_excel: rows of the main sheet, summary sheet
    run, first,             \* number of the execution, result of the first one
    \* beta_version_3.py, compare_folders: the locals gama_3.py does not have
    folders1, folders2,
    only_files_in_folder1, only_files_in_folder2,
    only_folders_in_folder1, only_folders_in_folder2,
    all_entries,            \* save_to_excel: rows of the sheet
    hashed,                 \* the <<side, path>> get_file_hash was called on
    \* gama_3.py, get_file_hash taken statement by statement
    hpc,                    \* position in get_file_hash
    filepath,               \* its argument
    hash_sha256,            \* the bytes absorbed by the hashlib.sha256 object
    f_pos,                  \* read position of the handle f
    open_handles,           \* number of file handles open
    result,                 \* value of the last return
    returned,               \* path -> the values get_file_hash returned for it
    \* alpha_3.py, compare_folders
    suffix,                 \* path -> what follows the stem in its file name
    changed_names           \* the list of (file, other_file) pairs

locals == <<files1, files2, only_in_folder1, only_in_folder2, common_files,
            different_files, identical_files, failed_comparisons, total_checked,
            idx, extra_files1, extra_files2, changed_files,
            unmatched_extra_files1, unmatched_extra_files2, order1, order2,
            hash_to_files1, all_files, summary>>

beta_locals == <<folders1, folders2, only_files_in_folder1,
                 only_files_in_folder2, only_folders_in_folder1,
                 only_folders_in_folder2, all_entries, hashed>>

hash_locals == <<hpc, filepath, hash_sha256, f_pos, open_handles, result,
                 returned>>

alpha_locals == <<suffix, changed_names>>

\* The state gama_3.py's compare_folders never touches.
other_vars == <<root1_ok, root2_ok, beta_locals, hash_locals, alpha_locals>>

vars == <<pc, tree1, tree2, locals, run, first, other_vars>>

Trees == UNION {[S -> Contents \cup {NoAccess}] : S \in SUBSET Paths}

NoSummary == [total_checked |-> 0, identical |-> 0, different |-> 0,
              changed |-> 0, only1 |-> 0, only2 |-> 0, failed |-> 0]

InitLocals ==
    /\ files1 = {} /\ files2 = {}
    /\ only_in_folder1 = <<>> /\ only_in_folder2 = <<>> /\ common_files = <<>>
    /\ different_files = <<>> /\ identical_files = <<>>
    /\ failed_comparisons = <<>>
    /\ total_checked = 0
    /\ idx = 1
    /\ extra_files1 = <<>> /\ extra_files2 = <<>>
    /\ changed_files = <<>>
    /\ unmatched_extra_files1 = {} /\ unmatched_extra_files2 = {}
    /\ order1 = <<>> /\ order2 = <<>>
    /\ hash_to_files1 = <<>>
    /\ all_files = <<>>
    /\ summary = NoSummary

InitBetaLocals ==
    /\ folders1 = {} /\ folders2 = {}
    /\ only_files_in_folder1 = <<>> /\ only_files_in_folder2 = <<>>
    /\ only_folders_in_folder1 = <<>> /\ only_folders_in_folder2 = <<>>
    /\ all_entries = <<>>
    /\ hashed = {}

InitHashLocals ==
    /\ hpc = "idle"
    /\ filepath = 0
    /\ hash_sha256 = <<>>
    /\ f_pos = 0
    /\ open_handles = 0
    /\ result = None
    /\ returned = [p \in Paths |-> {}]

InitAlphaLocals ==
    /\ suffix = [p \in Paths |-> <<>>]
    /\ changed_names = <<>>

\* The folders named on the command line (lines 224-237): each is a tree of
\* files, or a root that does not exist or cannot be listed.
Init ==
    /\ pc = "scan"
    /\ root1_ok \in BOOLEAN
    /\ root2_ok \in BOOLEAN
    /\ tree1 \in (IF root1_ok THEN Trees ELSE {<<>>})
    /\ tree2 \in (IF root2_ok THEN Trees ELSE {<<>>})
    /\ InitLocals
    /\ InitBetaLocals
    /\ InitHashLocals
    /\ InitAlphaLocals
    /\ run = 1
    /\ first = <<>>

\* ---------------------------------------------------------------- actions
\* compare_folders, lines 80-90: scan both folders and reconcile the paths.
\* A mutant of OnlyIn1: folder1's files are not reduced by folder2's.
OnlyIn1_All(f1, f2) == sorted(f1)

OnlyIn1(f1, f2) == sorted(f1 \ f2)
\* A mutant of OnlyIn2: folder2's files are not reduced by folder1's.
OnlyIn2_All(f1, f2) == sorted(f2)

OnlyIn2(f1, f2) == sorted(f2 \ f1)
Common(f1, f2) == sorted(f1 \cap f2)

Scan ==
    /\ pc = "scan"
    /\ files1' = get_all_files(root1_ok, tree1)
    /\ files2' = get_all_files(root2_ok, tree2)
    /\ only_in_folder1' = OnlyIn1(files1', files2')
    /\ only_in_folder2' = OnlyIn2(files1', files2')
    /\ common_files' = Common(files1', files2')
    /\ different_files' = <<>>
    /\ identical_files' = <<>>
    /\ failed_comparisons' = <<>>
    /\ total_checked' = 0
    /\ idx' = 1
    /\ pc' = "compare"
    /\ UNCHANGED <<tree1, tree2, extra_files1, extra_files2, changed_files,
                   unmatched_extra_files1, unmatched_extra_files2, order1,
                   order2, hash_to_files1, all_files, summary, run, first, other_vars>>

\* A mutant of Classify: a file with equal digests is put in no list.
Classify_NoElse(hash1, hash2) ==
    IF hash1 = None \/ hash2 = None THEN "failed"
    ELSE IF hash1 # hash2 THEN "different"
    ELSE "skipped"

\* A mutant of Classify: "and" for "or" in the test for a failed read.
Classify_BothNone(hash1, hash2) ==
    IF hash1 = None /\ hash2 = None THEN "failed"
    ELSE IF hash1 # hash2 THEN "different"
    ELSE "identical"

\* A mutant of Classify: the two branches of the digest test are swapped.
Classify_Swapped(hash1, hash2) ==
    IF hash1 = None \/ hash2 = None THEN "failed"
    ELSE IF hash1 = hash2 THEN "different"
    ELSE "identical"

\* The classification of one common file from its two hashes, lines 100-105.
Classify(hash1, hash2) ==
    IF hash1 = None \/ hash2 = None THEN "failed"
    ELSE IF hash1 # hash2 THEN "different"
    ELSE "identical"

\* One iteration of the loop over common_files, lines 93-106.
CompareStep ==
    /\ pc = "compare"
    /\ idx <= Len(common_files)
    /\ LET file == common_files[idx]
           hash1 == get_file_hash(tree1, file)
           hash2 == get_file_hash(tree2, file)
       IN  IF hash1 = Raised \/ hash2 = Raised
           THEN /\ pc' = "aborted"
                /\ UNCHANGED <<failed_comparisons, different_files,
                               identical_files, total_checked, idx>>
           ELSE /\ LET c == Classify(hash1, hash2)
                   IN  /\ failed_comparisons' =
                            IF c = "failed" THEN Append(failed_comparisons, file)
                            ELSE failed_comparisons
                       /\ different_files' =
                            IF c = "different" THEN Append(different_files, file)
                            ELSE different_files
                       /\ identical_files' =
                            IF c = "identical" THEN Append(identical_files, file)
                            ELSE identical_files
                /\ total_checked' = total_checked + 1
                /\ idx' = idx + 1
                /\ pc' = pc
    /\ UNCHANGED <<tree1, tree2, files1, files2, only_in_folder1,
                   only_in_folder2, common_files, extra_files1, extra_files2,
                   changed_files, unmatched_extra_files1,
                   unmatched_extra_files2, order1, order2, hash_to_files1,
                   all_files, summary, run, first, other_vars>>

\* The loop ends; detect_changed_files is called (line 109) and runs its
\* lines 48-53. The two sets are built here, and with them the order in
\* which list(...) later walks them.
DetectEnter ==
    /\ pc = "compare"
    /\ idx > Len(common_files)
    /\ extra_files1' = only_in_folder1
    /\ extra_files2' = only_in_folder2
    /\ changed_files' = <<>>
    /\ unmatched_extra_files1' = Range(extra_files1')
    /\ unmatched_extra_files2' = Range(extra_files2')
    /\ order1' \in ListOrders(unmatched_extra_files1')
    /\ order2' \in ListOrders(unmatched_extra_files2')
    /\ hash_to_files1' = <<>>
    /\ idx' = 1
    /\ pc' = "hash1"
    /\ UNCHANGED <<tree1, tree2, files1, files2, only_in_folder1,
                   only_in_folder2, common_files, different_files,
                   identical_files, failed_comparisons, total_checked,
                   all_files, summary, run, first, other_vars>>

\* hash_to_files1.setdefault(hash_val, []).append(file), line 58.
SetDefaultAppend(map, key, file) ==
    IF key \in DOMAIN map
    THEN [map EXCEPT ![key] = Append(@, file)]
    ELSE [k \in DOMAIN map \cup {key} |-> IF k = key THEN <<file>> ELSE map[k]]

\* One iteration of the loop over folder1's extra files, lines 54-58.
Hash1Step ==
    /\ pc = "hash1"
    /\ idx <= Len(order1)
    /\ LET file == order1[idx]
           hash_val == get_file_hash(tree1, file)
       IN  IF hash_val = Raised
           THEN /\ pc' = "aborted"
                /\ UNCHANGED <<hash_to_files1, idx>>
           ELSE /\ hash_to_files1' =
                     IF hash_val # None
                     THEN SetDefaultAppend(hash_to_files1, hash_val, file)
                     ELSE hash_to_files1
                /\ idx' = idx + 1
                /\ pc' = pc
    /\ UNCHANGED <<tree1, tree2, files1, files2, only_in_folder1,
                   only_in_folder2, common_files, different_files,
                   identical_files, failed_comparisons, total_checked,
                   extra_files1, extra_files2, changed_files,
                   unmatched_extra_files1, unmatched_extra_files2, order1,
                   order2, all_files, summary, run, first, other_vars>>

\* The first loop ends and the second one starts, line 61.
Hash1Done ==
    /\ pc = "hash1"
    /\ idx > Len(order1)
    /\ idx' = 1
    /\ pc' = "hash2"
    /\ UNCHANGED <<tree1, tree2, files1, files2, only_in_folder1,
                   only_in_folder2, common_files, different_files,
                   identical_files, failed_comparisons, total_checked,
                   extra_files1, extra_files2, changed_files,
                   unmatched_extra_files1, unmatched_extra_files2, order1,
                   order2, hash_to_files1, all_files, summary, run, first, other_vars>>

\* A mutant of PopFirst: the candidate is read but not removed.
PopFirst_Peek(map, key) == map

\* A mutant of PopFirst: the key of an emptied candidate list is kept.
PopFirst_KeepKey(map, key) == [map EXCEPT ![key] = Tail(@)]

\* hash_to_files1[hash_val].pop(0) and the del of an emptied key, lines 66-72.
PopFirst(map, key) ==
    IF Len(map[key]) > 1
    THEN [map EXCEPT ![key] = Tail(@)]
    ELSE [k \in DOMAIN map \ {key} |-> map[k]]

\* A mutant of IsMatch: a digest with several candidates is not matched.
IsMatch_SingleCandidate(hash_val, map) ==
    hash_val # None /\ hash_val \in DOMAIN map /\ Len(map[hash_val]) = 1

\* A mutant of IsMatch: a digest is never found in the map.
IsMatch_Never(hash_val, map) == FALSE

\* if hash_val is not None and hash_val in hash_to_files1, line 64.
IsMatch(hash_val, map) == hash_val # None /\ hash_val \in DOMAIN map

\* A mutant of Discard: the matched file stays in the unmatched set.
Discard_Noop(S, file) == S

\* unmatched_extra_files.discard(file), lines 68-69.
Discard(S, file) == S \ {file}

\* One iteration of the loop over folder2's extra files, lines 61-72.
Hash2Step ==
    /\ pc = "hash2"
    /\ idx <= Len(order2)
    /\ LET file == order2[idx]
           hash_val == get_file_hash(tree2, file)
       IN  IF hash_val = Raised
           THEN /\ pc' = "aborted"
                /\ UNCHANGED <<hash_to_files1, changed_files, idx,
                               unmatched_extra_files1, unmatched_extra_files2>>
           ELSE /\ IF IsMatch(hash_val, hash_to_files1)
                   THEN LET orig_file == Head(hash_to_files1[hash_val])
                        IN  /\ changed_files' =
                                 Append(changed_files, <<orig_file, file>>)
                            /\ unmatched_extra_files1' =
                                 Discard(unmatched_extra_files1, orig_file)
                            /\ unmatched_extra_files2' =
                                 Discard(unmatched_extra_files2, file)
                            /\ hash_to_files1' = PopFirst(hash_to_files1, hash_val)
                   ELSE UNCHANGED <<hash_to_files1, changed_files,
                                    unmatched_extra_files1,
                                    unmatched_extra_files2>>
                /\ idx' = idx + 1
                /\ pc' = pc
    /\ UNCHANGED <<tree1, tree2, files1, files2, only_in_folder1,
                   only_in_folder2, common_files, different_files,
                   identical_files, failed_comparisons, total_checked,
                   extra_files1, extra_files2, order1, order2, all_files,
                   summary, run, first, other_vars>>

\* detect_changed_files returns (line 74) and compare_folders rebinds the two
\* one-sided lists (lines 109-110). list(set) keeps the set's iteration order.
DetectReturn ==
    /\ pc = "hash2"
    /\ idx > Len(order2)
    /\ only_in_folder1' = Keep(order1, unmatched_extra_files1)
    /\ only_in_folder2' = Keep(order2, unmatched_extra_files2)
    /\ pc' = "report"
    /\ UNCHANGED <<tree1, tree2, files1, files2, common_files,
                   different_files, identical_files, failed_comparisons,
                   total_checked, idx, extra_files1, extra_files2,
                   changed_files, unmatched_extra_files1,
                   unmatched_extra_files2, order1, order2, hash_to_files1,
                   all_files, summary, run, first, other_vars>>

\* save_to_excel, lines 170-176: the rows of the main sheet.
Rows(s, status, location) ==
    [k \in DOMAIN s |-> [path |-> s[k], status |-> status, location |-> location]]

\* A mutant of SummarySheet: the header row is counted as a checked file.
SummarySheet_CountsHeader ==
    [total_checked |-> total_checked + 1,
     identical |-> Len(identical_files),
     different |-> Len(different_files),
     changed |-> Len(changed_files),
     only1 |-> Len(only_in_folder1),
     only2 |-> Len(only_in_folder2),
     failed |-> Len(failed_comparisons)]

\* save_to_excel, lines 183-190: the counts of the summary sheet.
SummarySheet ==
    [total_checked |-> total_checked,
     identical |-> Len(identical_files),
     different |-> Len(different_files),
     changed |-> Len(changed_files),
     only1 |-> Len(only_in_folder1),
     only2 |-> Len(only_in_folder2),
     failed |-> Len(failed_comparisons)]

\* The summary (lines 113-119) and save_to_excel (lines 147-149, 170-190).
Report ==
    /\ pc = "report"
    /\ all_files' = Rows(only_in_folder1, "Extra", "folder1")
                    \o Rows(only_in_folder2, "Extra", "folder2")
                    \o Rows(different_files, "Different", "Both folders")
                    \o Rows(identical_files, "Identical", "Both folders")
                    \o Rows(failed_comparisons, "Failed", "Comparison failed")
    /\ summary' = SummarySheet
    /\ pc' = "done"
    /\ UNCHANGED <<tree1, tree2, files1, files2, only_in_folder1,
                   only_in_folder2, common_files, different_files,
                   identical_files, failed_comparisons, total_checked, idx,
                   extra_files1, extra_files2, changed_files,
                   unmatched_extra_files1, unmatched_extra_files2, order1,
                   order2, hash_to_files1, run, first, other_vars>>

Next ==
    \/ Scan
    \/ CompareStep
    \/ DetectEnter
    \/ Hash1Step
    \/ Hash1Done
    \/ Hash2Step
    \/ DetectReturn
    \/ Report

Spec == Init /\ [][Next]_vars

\* Every step of the script is taken: a single thread with no blocking call
\* other than file reads, which complete or fail.
FairSpec == Spec /\ WF_vars(Next)

\* The script is run a second time on the same two folders; the first
\* execution's result is kept for comparison.
Rerun ==
    /\ pc = "done"
    /\ run = 1
    /\ first' = [changed_files |-> changed_files,
                 only_in_folder1 |-> only_in_folder1,
                 only_in_folder2 |-> only_in_folder2]
    /\ run' = 2
    /\ pc' = "scan"
    /\ files1' = {} /\ files2' = {}
    /\ only_in_folder1' = <<>> /\ only_in_folder2' = <<>>
    /\ common_files' = <<>>
    /\ different_files' = <<>> /\ identical_files' = <<>>
    /\ failed_comparisons' = <<>>
    /\ total_checked' = 0
    /\ idx' = 1
    /\ extra_files1' = <<>> /\ extra_files2' = <<>>
    /\ changed_files' = <<>>
    /\ unmatched_extra_files1' = {} /\ unmatched_extra_files2' = {}
    /\ order1' = <<>> /\ order2' = <<>>
    /\ hash_to_files1' = <<>>
    /\ all_files' = <<>>
    /\ summary' = NoSummary
    /\ UNCHANGED <<tree1, tree2, other_vars>>

NextTwoRuns == Next \/ Rerun

SpecTwoRuns == Init /\ [][NextTwoRuns]_vars

\* ------------------------------------------- beta_version_3.py, the program
\* beta_version_3.py lists files and folders, compares the common files and
\* has no rename detection. Its get_file_hash has no try block.
BetaTrees == UNION {[S -> Contents \cup {NoAccess, IsDir}] : S \in SUBSET Paths}

InitBeta ==
    /\ pc = "scan"
    /\ root1_ok \in BOOLEAN
    /\ root2_ok \in BOOLEAN
    /\ tree1 \in (IF root1_ok THEN BetaTrees ELSE {<<>>})
    /\ tree2 \in (IF root2_ok THEN BetaTrees ELSE {<<>>})
    /\ InitLocals
    /\ InitBetaLocals
    /\ InitHashLocals
    /\ InitAlphaLocals
    /\ run = 1
    /\ first = <<>>

\* The locals of gama_3.py that beta_version_3.py does not have.
gama_only == <<only_in_folder1, only_in_folder2, failed_comparisons,
               total_checked, extra_files1, extra_files2, changed_files,
               unmatched_extra_files1, unmatched_extra_files2, order1, order2,
               hash_to_files1, all_files, summary, run, first>>

\* get_all_files_and_folders(folder), lines 9-22: (file_paths, folder_paths).
get_all_files_and_folders(ok, tree) ==
    <<os_walk_files(ok, tree), os_walk_dirs(ok, tree)>>

\* get_file_hash(filepath), lines 25-31: the digest; a failed read raises.
beta_get_file_hash(tree, file) ==
    IF tree[file] = NoAccess THEN Raised
    ELSE hexdigest(ReadChunks(tree[file], 1, <<>>))

\* A mutant of OnlyFolders1: folder1's folders are not reduced by folder2's.
OnlyFolders1_All(d1, d2) == sorted(d1)

\* Lines 51-52.
OnlyFolders1(d1, d2) == sorted(d1 \ d2)
OnlyFolders2(d1, d2) == sorted(d2 \ d1)

\* A mutant of BetaCommon: paths are matched whatever their kind.
BetaCommon_AnyKind(f1, d1, f2, d2) == sorted((f1 \cup d1) \cap (f2 \cup d2))

\* Line 53: only the two file sets are intersected.
BetaCommon(f1, d1, f2, d2) == sorted(f1 \cap f2)

\* compare_folders, lines 46-56.
BetaScan ==
    /\ pc = "scan"
    /\ files1' = get_all_files_and_folders(root1_ok, tree1)[1]
    /\ folders1' = get_all_files_and_folders(root1_ok, tree1)[2]
    /\ files2' = get_all_files_and_folders(root2_ok, tree2)[1]
    /\ folders2' = get_all_files_and_folders(root2_ok, tree2)[2]
    /\ only_files_in_folder1' = OnlyIn1(files1', files2')
    /\ only_files_in_folder2' = OnlyIn2(files1', files2')
    /\ only_folders_in_folder1' = OnlyFolders1(folders1', folders2')
    /\ only_folders_in_folder2' = OnlyFolders2(folders1', folders2')
    /\ common_files' = BetaCommon(files1', folders1', files2', folders2')
    /\ different_files' = <<>>
    /\ identical_files' = <<>>
    /\ idx' = 1
    /\ pc' = "compare"
    /\ UNCHANGED <<tree1, tree2, root1_ok, root2_ok, gama_only, hash_locals, alpha_locals, all_entries,
                   hashed>>

\* One iteration of the loop over common_files, lines 59-69. An exception of
\* the first get_file_hash ends the run before the second call.
BetaCompareStep ==
    /\ pc = "compare"
    /\ idx <= Len(common_files)
    /\ LET file == common_files[idx]
           hash1 == beta_get_file_hash(tree1, file)
           hash2 == beta_get_file_hash(tree2, file)
       IN  IF hash1 = Raised
           THEN /\ hashed' = hashed \cup {<<1, file>>}
                /\ pc' = "aborted"
                /\ UNCHANGED <<different_files, identical_files, idx>>
           ELSE IF hash2 = Raised
           THEN /\ hashed' = hashed \cup {<<1, file>>, <<2, file>>}
                /\ pc' = "aborted"
                /\ UNCHANGED <<different_files, identical_files, idx>>
           ELSE /\ hashed' = hashed \cup {<<1, file>>, <<2, file>>}
                /\ different_files' =
                     IF hash1 # hash2 THEN Append(different_files, file)
                     ELSE different_files
                /\ identical_files' =
                     IF hash1 # hash2 THEN identical_files
                     ELSE Append(identical_files, file)
                /\ idx' = idx + 1
                /\ pc' = pc
    /\ UNCHANGED <<tree1, tree2, root1_ok, root2_ok, gama_only, hash_locals, alpha_locals, files1, files2,
                   common_files, folders1, folders2, only_files_in_folder1,
                   only_files_in_folder2, only_folders_in_folder1,
                   only_folders_in_folder2, all_entries>>

\* save_to_excel, lines 135-142: the rows of the sheet.
Entries(s, type, status, location) ==
    [k \in DOMAIN s |->
        [type |-> type, path |-> s[k], status |-> status, location |-> location]]

\* The loop ends; the summary is printed and save_to_excel is called
\* (lines 71-114, 135-156).
BetaReport ==
    /\ pc = "compare"
    /\ idx > Len(common_files)
    /\ all_entries' =
           Entries(only_folders_in_folder1, "Folder", "Extra", "folder1")
        \o Entries(only_folders_in_folder2, "Folder", "Extra", "folder2")
        \o Entries(only_files_in_folder1, "File", "Extra", "folder1")
        \o Entries(only_files_in_folder2, "File", "Extra", "folder2")
        \o Entries(different_files, "File", "Different", "Both folders")
        \o Entries(identical_files, "File", "Identical", "Both folders")
    /\ pc' = "done"
    /\ UNCHANGED <<tree1, tree2, root1_ok, root2_ok, gama_only, hash_locals, alpha_locals, files1, files2,
                   common_files, different_files, identical_files, idx,
                   folders1, folders2, only_files_in_folder1,
                   only_files_in_folder2, only_folders_in_folder1,
                   only_folders_in_folder2, hashed>>

NextBeta ==
    \/ BetaScan
    \/ BetaCompareStep
    \/ BetaReport

SpecBeta == InitBeta /\ [][NextBeta]_vars

\* ------------------------------------------ get_file_hash, step by step
\* gama_3.py lines 19-29, one action per statement. A file marked NoAccess
\* fails at open() or, once opened, at its first f.read(); a file with
\* bytes is read to its end.
InitHash ==
    /\ pc = "scan"
    /\ root1_ok = TRUE
    /\ root2_ok = TRUE
    /\ tree1 \in Trees
    /\ tree2 = <<>>
    /\ InitLocals
    /\ InitBetaLocals
    /\ InitHashLocals
    /\ InitAlphaLocals
    /\ run = 1
    /\ first = <<>>

\* What get_file_hash leaves alone.
compare_vars == <<pc, tree1, tree2, locals, run, first, root1_ok, root2_ok,
                  beta_locals, alpha_locals>>

\* A mutant of sha256_new: one hash object is shared by all the calls.
sha256_new_shared(old) == old

\* hash_sha256 = hashlib.sha256(), line 21: a fresh object that has absorbed
\* nothing, whatever the previous call left.
sha256_new(old) == <<>>

\* A caller (a loop of compare_folders or detect_changed_files) calls
\* get_file_hash on a file of the folder; line 21.
HashCall ==
    /\ hpc = "idle"
    /\ \E file \in DOMAIN tree1 :
           /\ filepath' = file
           /\ hash_sha256' = sha256_new(hash_sha256)
    /\ hpc' = "open"
    /\ UNCHANGED <<f_pos, open_handles, result, returned, compare_vars>>

\* with open(filepath, "rb") as f, line 23: open() raises, or a handle is open.
HashOpen ==
    /\ hpc = "open"
    /\ \/ /\ tree1[filepath] = NoAccess
          /\ hpc' = "except"
          /\ UNCHANGED <<f_pos, open_handles>>
       \/ /\ f_pos' = 1
          /\ open_handles' = open_handles + 1
          /\ hpc' = "read"
    /\ UNCHANGED <<filepath, hash_sha256, result, returned, compare_vars>>

\* A mutant of with_exit: the handle is left open.
with_exit_leak(n) == n

\* Leaving the with block, by the end of the loop or by an exception, closes f.
with_exit(n) == n - 1

\* chunk = f.read(4096), lines 24-25: the read raises, or returns b"" and the
\* loop and the with block end, or returns a chunk that is absorbed.
HashRead ==
    /\ hpc = "read"
    /\ IF tree1[filepath] = NoAccess
       THEN /\ open_handles' = with_exit(open_handles)
            /\ hpc' = "except"
            /\ UNCHANGED <<hash_sha256, f_pos>>
       ELSE LET data == tree1[filepath]
                last == Min(f_pos + ChunkSize - 1, Len(data))
                chunk == SubSeq(data, f_pos, last)
            IN  IF chunk = <<>>
                THEN /\ open_handles' = with_exit(open_handles)
                     /\ hpc' = "return"
                     /\ UNCHANGED <<hash_sha256, f_pos>>
                ELSE /\ hash_sha256' = sha256_update(hash_sha256, chunk)
                     /\ f_pos' = last + 1
                     /\ hpc' = "read"
                     /\ UNCHANGED open_handles
    /\ UNCHANGED <<filepath, result, returned, compare_vars>>

\* return hash_sha256.hexdigest(), line 26.
HashReturn ==
    /\ hpc = "return"
    /\ result' = hexdigest(hash_sha256)
    /\ returned' = [returned EXCEPT ![filepath] = @ \cup {result'}]
    /\ hpc' = "idle"
    /\ UNCHANGED <<filepath, hash_sha256, f_pos, open_handles, compare_vars>>

\* except Exception: print and return None, lines 27-29.
HashExcept ==
    /\ hpc = "except"
    /\ result' = None
    /\ returned' = [returned EXCEPT ![filepath] = @ \cup {result'}]
    /\ hpc' = "idle"
    /\ UNCHANGED <<filepath, hash_sha256, f_pos, open_handles, compare_vars>>

NextHash ==
    \/ HashCall
    \/ HashOpen
    \/ HashRead
    \/ HashReturn
    \/ HashExcept

SpecHash == InitHash /\ [][NextHash]_vars

\* ------------------------------------------------- alpha_3.py, the program
\* alpha_3.py is beta_version_3.py plus a list changed_names, filled by a
\* nested loop over the two one-sided file lists that pairs the files whose
\* names have the same extension. The folders here hold files only;
\* sub-folders are compared as in beta_version_3.py.

\* What follows the stem of a file name: nothing, or ".t".
Suffixes == {<<>>, <<".", "t">>}

\* The relative path of file p as a string of characters: a stem that is
\* different for every path and grows with p, then the suffix.
PathName(p) == <<ToString(p)>> \o suffix[p]

\* str.rfind(c) + 1: the position of the last c in s, 0 when there is none.
LastIndex(s, c) ==
    LET K == {k \in DOMAIN s : s[k] = c}
    IN  IF K = {} THEN 0 ELSE CHOOSE k \in K : \A j \in K : j <= k

\* os.path.splitext(p): (root, ext). ext starts at the last dot of the last
\* path component, unless that component has only dots before it.
splitext(p) ==
    LET sepIndex == LastIndex(p, "/")
        dotIndex == LastIndex(p, ".")
    IN  IF /\ dotIndex > sepIndex
           /\ \E k \in (sepIndex + 1)..(dotIndex - 1) : p[k] # "."
        THEN <<SubSeq(p, 1, dotIndex - 1), SubSeq(p, dotIndex, Len(p))>>
        ELSE <<p, <<>>>>

\* A mutant of SameExtension: the roots are compared, not the extensions.
SameExtension_Root(file, other_file) ==
    splitext(PathName(file))[1] = splitext(PathName(other_file))[1]

\* os.path.splitext(file)[1] == os.path.splitext(other_file)[1], line 70.
SameExtension(file, other_file) ==
    splitext(PathName(file))[2] = splitext(PathName(other_file))[2]

\* The inner loop, lines 69-71: the pairs of one file of folder1.
RECURSIVE InnerLoop(_, _)
InnerLoop(file, others) ==
    IF others = <<>> THEN <<>>
    ELSE (IF SameExtension(file, Head(others))
          THEN <<<<file, Head(others)>>>> ELSE <<>>)
         \o InnerLoop(file, Tail(others))

\* The outer loop, lines 68-71: what is appended to changed_names.
RECURSIVE OuterLoop(_, _)
OuterLoop(files, others) ==
    IF files = <<>> THEN <<>>
    ELSE InnerLoop(Head(files), others) \o OuterLoop(Tail(files), others)

InitAlpha ==
    /\ pc = "scan"
    /\ root1_ok \in BOOLEAN
    /\ root2_ok \in BOOLEAN
    /\ tree1 \in (IF root1_ok THEN Trees ELSE {<<>>})
    /\ tree2 \in (IF root2_ok THEN Trees ELSE {<<>>})
    /\ InitLocals
    /\ InitBetaLocals
    /\ InitHashLocals
    /\ suffix \in [Paths -> Suffixes]
    /\ changed_names = <<>>
    /\ run = 1
    /\ first = <<>>

\* get_file_hash(filepath), lines 24-29: the digest; a failed read raises.
alpha_get_file_hash(tree, file) ==
    IF tree[file] = NoAccess THEN Raised
    ELSE hexdigest(ReadChunks(tree[file], 1, <<>>))

\* compare_folders, lines 42-53.
AlphaScan ==
    /\ pc = "scan"
    /\ files1' = get_all_files_and_folders(root1_ok, tree1)[1]
    /\ folders1' = get_all_files_and_folders(root1_ok, tree1)[2]
    /\ files2' = get_all_files_and_folders(root2_ok, tree2)[1]
    /\ folders2' = get_all_files_and_folders(root2_ok, tree2)[2]
    /\ only_files_in_folder1' = sorted(files1' \ files2')
    /\ only_files_in_folder2' = sorted(files2' \ files1')
    /\ only_folders_in_folder1' = sorted(folders1' \ folders2')
    /\ only_folders_in_folder2' = sorted(folders2' \ folders1')
    /\ common_files' = sorted(files1' \cap files2')
    /\ different_files' = <<>>
    /\ identical_files' = <<>>
    /\ changed_names' = <<>>
    /\ idx' = 1
    /\ pc' = "compare"
    /\ UNCHANGED <<tree1, tree2, root1_ok, root2_ok, gama_only, hash_locals,
                   all_entries, hashed, suffix>>

\* One iteration of the loop over common_files, lines 56-66. An exception of
\* get_file_hash ends the run.
AlphaCompareStep ==
    /\ pc = "compare"
    /\ idx <= Len(common_files)
    /\ LET file == common_files[idx]
           hash1 == alpha_get_file_hash(tree1, file)
           hash2 == alpha_get_file_hash(tree2, file)
       IN  IF hash1 = Raised \/ hash2 = Raised
           THEN /\ pc' = "aborted"
                /\ UNCHANGED <<different_files, identical_files, idx>>
           ELSE /\ different_files' =
                     IF hash1 # hash2 THEN Append(different_files, file)
                     ELSE different_files
                /\ identical_files' =
                     IF hash1 # hash2 THEN identical_files
                     ELSE Append(identical_files, file)
                /\ idx' = idx + 1
                /\ pc' = pc
    /\ UNCHANGED <<tree1, tree2, root1_ok, root2_ok, gama_only, hash_locals,
                   alpha_locals, files1, files2, common_files, folders1,
                   folders2, only_files_in_folder1, only_files_in_folder2,
                   only_folders_in_folder1, only_folders_in_folder2,
                   all_entries, hashed>>

\* The loop over common_files ends; the nested loop of lines 68-71 runs.
AlphaPairs ==
    /\ pc = "compare"
    /\ idx > Len(common_files)
    /\ changed_names' =
           changed_names \o OuterLoop(only_files_in_folder1, only_files_in_folder2)
    /\ pc' = "report"
    /\ UNCHANGED <<tree1, tree2, root1_ok, root2_ok, gama_only, hash_locals,
                   suffix, files1, files2, common_files, different_files,
                   identical_files, idx, beta_locals>>

\* The empty string of the "Changed Name" column, lines 97-102.
NoName == 0

\* save_to_excel, lines 97-102: the rows of the lists of paths.
AlphaEntries(s, type, status, location) ==
    [k \in DOMAIN s |->
        [type |-> type, path |-> s[k], status |-> status,
         location |-> location, changed_name |-> NoName]]

\* save_to_excel, lines 103-104: the rows of changed_names.
RenamedEntries(pairs) ==
    [k \in DOMAIN pairs |->
        [type |-> "File", path |-> pairs[k][1], status |-> "Renamed",
         location |-> "folder1", changed_name |-> pairs[k][2]]]

\* The pairs are printed and save_to_excel is called (lines 73-78, 96-108).
AlphaReport ==
    /\ pc = "report"
    /\ all_entries' =
           AlphaEntries(only_folders_in_folder1, "Folder", "Extra", "folder1")
        \o AlphaEntries(only_folders_in_folder2, "Folder", "Extra", "folder2")
        \o AlphaEntries(only_files_in_folder1, "File", "Extra", "folder1")
        \o AlphaEntries(only_files_in_folder2, "File", "Extra", "folder2")
        \o AlphaEntries(different_files, "File", "Different", "Both folders")
        \o AlphaEntries(identical_files, "File", "Identical", "Both folders")
        \o RenamedEntries(changed_names)
    /\ pc' = "done"
    /\ UNCHANGED <<tree1, tree2, root1_ok, root2_ok, gama_only, hash_locals,
                   alpha_locals, files1, files2, common_files,
                   different_files, identical_files, idx, folders1, folders2,
                   only_files_in_folder1, only_files_in_folder2,
                   only_folders_in_folder1, only_folders_in_folder2, hashed>>

NextAlpha ==
    \/ AlphaScan
    \/ AlphaCompareStep
    \/ AlphaPairs
    \/ AlphaReport

SpecAlpha == InitAlpha /\ [][NextAlpha]_vars

\* ---------------------------------------------------------------- claims
\* The two folders as they are on disk.
FilesA == DOMAIN tree1
FilesB == DOMAIN tree2
OnlyFilesA == FilesA \ FilesB
OnlyFilesB == FilesB \ FilesA
CommonFiles == FilesA \cap FilesB

ReadableA(f) == tree1[f] # NoAccess
ReadableB(f) == tree2[f] # NoAccess

\* The SHA-256 digests of the bytes of a readable file of either folder.
DigestA(f) == hexdigest(ReadChunks(tree1[f], 1, <<>>))
DigestB(f) == hexdigest(ReadChunks(tree2[f], 1, <<>>))

\* The common files whose loop iteration has completed.
Compared ==
    IF pc = "scan" THEN {}
    ELSE IF pc = "compare" THEN {common_files[k] : k \in 1..(idx - 1)}
    ELSE Range(common_files)

\* detect_changed_files has returned: the one-sided lists are the final ones.
Detected == pc \in {"report", "done"}

RenamedFrom == {changed_files[k][1] : k \in DOMAIN changed_files}
RenamedTo == {changed_files[k][2] : k \in DOMAIN changed_files}

\* C1: after reconciliation the three path lists hold filesA - filesB,
\* filesB - filesA and filesA & filesB; they are pairwise disjoint and
\* together they are filesA | filesB.
C1_Reconciliation ==
    pc \in {"compare", "hash1", "hash2"} =>
        /\ Range(only_in_folder1) = OnlyFilesA
        /\ Range(only_in_folder2) = OnlyFilesB
        /\ Range(common_files) = CommonFiles
        /\ Range(only_in_folder1) \cap Range(only_in_folder2) = {}
        /\ Range(only_in_folder1) \cap Range(common_files) = {}
        /\ Range(only_in_folder2) \cap Range(common_files) = {}
        /\ Range(only_in_folder1) \cup Range(only_in_folder2)
             \cup Range(common_files) = FilesA \cup FilesB

C1_Witness ==
    /\ pc = "compare"
    /\ only_in_folder1 # <<>>
    /\ only_in_folder2 # <<>>
    /\ common_files # <<>>

\* C2: a compared common file whose two hashes succeeded is in the
\* identical list iff its two digests are equal and in the different list
\* otherwise; equal bytes on both sides never give "different".
C2_IdenticalIffDigestsEqual ==
    \A f \in Compared :
        (ReadableA(f) /\ ReadableB(f)) =>
            /\ (f \in Range(identical_files)) <=> (DigestA(f) = DigestB(f))
            /\ (f \in Range(different_files)) <=> (DigestA(f) # DigestB(f))
            /\ (tree1[f] = tree2[f]) => f \notin Range(different_files)

C2_Witness ==
    /\ pc = "done"
    /\ \E f \in Range(identical_files) : tree1[f] = tree2[f]
    /\ \E f \in Range(different_files) : tree1[f] # tree2[f]

\* C3: one-sided files a and b with the same bytes, both readable, whose
\* bytes no other one-sided file has, come out as the pair (a, b), and
\* neither is left in the one-sided lists.
SameBytes(a, b) == ReadableA(a) /\ ReadableB(b) /\ tree1[a] = tree2[b]

UniqueMatch(a, b) ==
    /\ SameBytes(a, b)
    /\ \A x \in OnlyFilesA \ {a} : tree1[x] # tree1[a]
    /\ \A y \in OnlyFilesB \ {b} : tree2[y] # tree2[b]

C3_UniqueMatchIsRenamed ==
    Detected =>
        \A a \in OnlyFilesA, b \in OnlyFilesB :
            UniqueMatch(a, b) =>
                /\ <<a, b>> \in Range(changed_files)
                /\ a \notin Range(only_in_folder1)
                /\ b \notin Range(only_in_folder2)

C3_Witness ==
    /\ pc = "done"
    /\ \E a \in OnlyFilesA, b \in OnlyFilesB :
           /\ UniqueMatch(a, b)
           /\ <<a, b>> \in Range(changed_files)
           /\ (OnlyFilesA \cup OnlyFilesB) \ {a, b} # {}

\* C4: for every digest, the i-th lowest readable one-sided file of folder2
\* with that digest is paired with the i-th lowest readable one-sided file
\* of folder1 with it, and no other pair has that digest.
OneSidedDigests ==
    {DigestA(a) : a \in {x \in OnlyFilesA : ReadableA(x)}}
    \cup {DigestB(b) : b \in {y \in OnlyFilesB : ReadableB(y)}}

CandidatesA(d) == sorted({a \in OnlyFilesA : ReadableA(a) /\ DigestA(a) = d})
CandidatesB(d) == sorted({b \in OnlyFilesB : ReadableB(b) /\ DigestB(b) = d})

SortedGreedyPairs(d) ==
    {<<CandidatesA(d)[k], CandidatesB(d)[k]>> :
        k \in 1..Min(Len(CandidatesA(d)), Len(CandidatesB(d)))}

C4_GreedyInSortedOrder ==
    Detected =>
        \A d \in OneSidedDigests :
            {pair \in Range(changed_files) : DigestA(pair[1]) = d}
                = SortedGreedyPairs(d)

\* C5: two executions on the same folders give the same rename pairs in the
\* same order and the same remaining one-sided files.
C5_Deterministic ==
    (run = 2 /\ pc = "done") =>
        /\ changed_files = first.changed_files
        /\ Range(only_in_folder1) = Range(first.only_in_folder1)
        /\ Range(only_in_folder2) = Range(first.only_in_folder2)

\* C6: no path of a rename pair is left in a one-sided result: for every
\* pair (a, b), a is not in the remaining folder1 list nor b in folder2's.
C6_RenamedNotOneSided ==
    /\ pc = "hash2" =>
         /\ RenamedFrom \cap unmatched_extra_files1 = {}
         /\ RenamedTo \cap unmatched_extra_files2 = {}
    /\ Detected =>
         /\ RenamedFrom \cap Range(only_in_folder1) = {}
         /\ RenamedTo \cap Range(only_in_folder2) = {}

C6_Witness ==
    /\ pc = "done"
    /\ changed_files # <<>>
    /\ Len(only_in_folder1) + Len(only_in_folder2) > 0

\* C7: in the final report every path of filesA | filesB is listed exactly
\* once over identical, different, failed, the two remaining one-sided
\* lists and the rename pairs (from-path for folder1, to-path for folder2).
Occurrences(s, f) == Cardinality({k \in DOMAIN s : s[k] = f})

Classifications(f) ==
    Occurrences(identical_files, f) + Occurrences(different_files, f)
    + Occurrences(failed_comparisons, f)
    + Occurrences(only_in_folder1, f) + Occurrences(only_in_folder2, f)
    + Cardinality({k \in DOMAIN changed_files : changed_files[k][1] = f})
    + Cardinality({k \in DOMAIN changed_files : changed_files[k][2] = f})

C7_ExactlyOneClassification ==
    Detected => \A f \in FilesA \cup FilesB : Classifications(f) = 1

C7_Witness ==
    /\ pc = "done"
    /\ Len(changed_files) = 1
    /\ Len(identical_files) + Len(different_files) + Len(failed_comparisons) = 1

\* C8: a compared common file whose hash failed on either side (or both)
\* is in the failed list and in neither the identical nor the different one.
C8_FailedReadIsUnreadable ==
    \A f \in Compared :
        (~ReadableA(f) \/ ~ReadableB(f)) =>
            /\ f \in Range(failed_comparisons)
            /\ f \notin Range(identical_files)
            /\ f \notin Range(different_files)

C8_Witness ==
    /\ pc = "done"
    /\ \E f \in Range(failed_comparisons) : ReadableA(f) /\ ~ReadableB(f)
    /\ \E f \in Range(failed_comparisons) : ~ReadableA(f) /\ ReadableB(f)

\* C9: whatever files fail to hash, the comparison runs to its end and the
\* report then lists every file of both folders.
Reported ==
    Range(identical_files) \cup Range(different_files)
    \cup Range(failed_comparisons) \cup Range(only_in_folder1)
    \cup Range(only_in_folder2) \cup RenamedFrom \cup RenamedTo

C9_HashFailureDoesNotAbort ==
    <>(pc = "done" /\ Reported = FilesA \cup FilesB)

C9_Witness ==
    /\ pc = "done"
    /\ \E f \in CommonFiles : ~ReadableA(f)
    /\ \E f \in OnlyFilesA : ~ReadableA(f)
    /\ \E f \in OnlyFilesB : ~ReadableB(f)

\* C10: a one-sided file whose hash failed in rename detection is reported
\* as failed and counted in the summary's failed count, and is not reported
\* as an extra file of its folder.
UnreadableOneSided ==
    {f \in OnlyFilesA : ~ReadableA(f)} \cup {f \in OnlyFilesB : ~ReadableB(f)}

C10_OneSidedFailureIsUnreadable ==
    pc = "done" =>
        /\ UnreadableOneSided \subseteq Range(failed_comparisons)
        /\ summary.failed >= Cardinality(UnreadableOneSided)
        /\ \A k \in DOMAIN all_files :
               all_files[k].path \in UnreadableOneSided
                   => all_files[k].status # "Extra"

\* C11: a one-sided file whose hash failed is in no rename pair, neither as
\* the from-path (folder1) nor as the to-path (folder2).
C11_UnreadableNeverRenamed ==
    /\ \A f \in OnlyFilesA : ~ReadableA(f) => f \notin RenamedFrom
    /\ \A f \in OnlyFilesB : ~ReadableB(f) => f \notin RenamedTo

C11_Witness ==
    /\ pc = "done"
    /\ changed_files # <<>>
    /\ UnreadableOneSided # {}

\* C12: when a root folder does not exist or cannot be listed, the
\* comparison stops at the enumeration with an error and produces no report.
C12_MissingRootFails ==
    (~root1_ok \/ ~root2_ok) =>
        /\ pc \in {"scan", "path_error"}
        /\ all_files = <<>>
        /\ summary = NoSummary

\* C13: every file whose hash failed has a "Failed" row in the report that
\* names its path and the folder on whose side the read failed.
FailedReads ==
    {<<"folder1", f>> : f \in {x \in FilesA : ~ReadableA(x)}}
    \cup {<<"folder2", f>> : f \in {y \in FilesB : ~ReadableB(y)}}

C13_FailedReadReportedWithSide ==
    pc = "done" =>
        \A r \in FailedReads :
            \E k \in DOMAIN all_files :
                /\ all_files[k].path = r[2]
                /\ all_files[k].status = "Failed"
                /\ all_files[k].location = r[1]

\* C14: the steps of detect_changed_files leave the identical, different
\* and failed lists of the common files as they are, and no common path is
\* hashed by them or put in a rename pair.
RenameStep ==
    /\ pc \in {"compare", "hash1", "hash2"}
    /\ pc' \in {"hash1", "hash2", "report"}

C14_RenameIsPostProcess ==
    /\ [][RenameStep =>
            UNCHANGED <<identical_files, different_files, failed_comparisons,
                        total_checked, common_files>>]_vars
    /\ [](pc \in {"hash1", "hash2", "report", "done"} =>
            (Range(order1) \cup Range(order2) \cup RenamedFrom \cup RenamedTo)
                \cap CommonFiles = {})

C14_Witness ==
    /\ pc = "report"
    /\ changed_files # <<>>
    /\ common_files # <<>>

\* C18: for every rename pair (a, b), a is a one-sided file of folder1, b a
\* one-sided file of folder2, both were read, and their digests are equal.
C18_RenamePairsSound ==
    \A k \in DOMAIN changed_files :
        LET a == changed_files[k][1]
            b == changed_files[k][2]
        IN  /\ a \in OnlyFilesA
            /\ b \in OnlyFilesB
            /\ ReadableA(a)
            /\ ReadableB(b)
            /\ DigestA(a) = DigestB(b)

C18_Witness ==
    /\ pc = "hash2"
    /\ changed_files # <<>>
    /\ \E f \in OnlyFilesA \cup OnlyFilesB : f \notin RenamedFrom \cup RenamedTo

\* C19: with no file in either folder the report has no row and no rename
\* pair, and every count of the summary is zero.
C19_EmptyTreesEmptyReport ==
    (pc = "done" /\ FilesA = {} /\ FilesB = {}) =>
        /\ all_files = <<>>
        /\ changed_files = <<>>
        /\ identical_files = <<>> /\ different_files = <<>>
        /\ failed_comparisons = <<>>
        /\ only_in_folder1 = <<>> /\ only_in_folder2 = <<>>
        /\ summary = NoSummary

C19_Witness ==
    /\ pc = "done"
    /\ root1_ok /\ root2_ok
    /\ FilesA = {} /\ FilesB = {}

\* The folders and files of the two trees as they are on disk.
FoldersA == {p \in DOMAIN tree1 : tree1[p] = IsDir}
FoldersB == {p \in DOMAIN tree2 : tree2[p] = IsDir}
PlainFilesA == {p \in DOMAIN tree1 : tree1[p] # IsDir}
PlainFilesB == {p \in DOMAIN tree2 : tree2[p] # IsDir}

EntryPaths(type) ==
    {all_entries[k].path : k \in {j \in DOMAIN all_entries : all_entries[j].type = type}}

\* C16: the two folder lists are foldersA - foldersB and foldersB - foldersA,
\* they are disjoint, a folder of both sides is in no list and no row, and
\* get_file_hash is never called on a folder.
C16_FoldersByPresenceOnly ==
    pc # "scan" =>
        /\ Range(only_folders_in_folder1) = FoldersA \ FoldersB
        /\ Range(only_folders_in_folder2) = FoldersB \ FoldersA
        /\ Range(only_folders_in_folder1) \cap Range(only_folders_in_folder2) = {}
        /\ (FoldersA \cap FoldersB) \cap
             (Range(only_folders_in_folder1) \cup Range(only_folders_in_folder2)
              \cup EntryPaths("Folder")) = {}
        /\ \A h \in hashed :
               /\ h[1] = 1 => h[2] \notin FoldersA
               /\ h[1] = 2 => h[2] \notin FoldersB

C16_Witness ==
    /\ pc = "done"
    /\ Len(only_folders_in_folder1) + Len(only_folders_in_folder2) > 0
    /\ FoldersA \cap FoldersB # {}
    /\ hashed # {}

\* C17: a path that is a file on one side and a folder on the other is not
\* a common file, is not hashed on either side, and is listed as a one-sided
\* file of the side where it is a file and as a one-sided folder of the other.
C17_FileAndFolderNamespacesSeparate ==
    pc # "scan" =>
        /\ \A p \in PlainFilesA \cap FoldersB :
               /\ p \notin Range(common_files)
               /\ <<1, p>> \notin hashed /\ <<2, p>> \notin hashed
               /\ p \in Range(only_files_in_folder1)
               /\ p \in Range(only_folders_in_folder2)
        /\ \A p \in PlainFilesB \cap FoldersA :
               /\ p \notin Range(common_files)
               /\ <<1, p>> \notin hashed /\ <<2, p>> \notin hashed
               /\ p \in Range(only_files_in_folder2)
               /\ p \in Range(only_folders_in_folder1)

C17_Witness ==
    /\ pc = "done"
    /\ PlainFilesA \cap FoldersB # {}
    /\ PlainFilesB \cap FoldersA # {}
    /\ hashed # {}

\* C20: every call of get_file_hash on a file returns the one digest of its
\* bytes (or None for a file that cannot be read), however many calls were
\* made before, and no step of a call changes the file.
C20_HashDeterministic ==
    /\ [](\A f \in DOMAIN tree1 :
            /\ Cardinality(returned[f]) <= 1
            /\ ReadableA(f) => returned[f] \subseteq {DigestA(f)}
            /\ ~ReadableA(f) => returned[f] \subseteq {None})
    /\ [][tree1' = tree1]_vars

C20_Witness ==
    /\ hpc = "read"
    /\ f_pos > 1
    /\ returned[filepath] # {}
    /\ \E f \in DOMAIN tree1 : f # filepath /\ returned[f] = {None}

\* C21: the handle get_file_hash opens is closed on every way out of the
\* call: once the call has returned a digest, or has reached its except
\* clause after a failure at open() or at a read, no handle is open; at no
\* point is more than one handle open.
C21_HandleClosedOnEveryExit ==
    /\ open_handles \in {0, 1}
    /\ hpc \in {"idle", "open", "return", "except"} => open_handles = 0
    /\ hpc = "read" => open_handles = 1

\* A call on an unreadable file is in its except clause after the handle
\* was opened by this very call (every earlier call read a one-byte file to
\* its end, which leaves the read position at 2), and the handle is closed.
C21_Witness ==
    /\ hpc = "except"
    /\ tree1[filepath] = NoAccess
    /\ f_pos = 1
    /\ open_handles = 0
    /\ \A f \in DOMAIN tree1 : returned[f] # {} => tree1[f] = <<1>>
    /\ \E f \in DOMAIN tree1 : returned[f] # {}

\* C22: the rename pairs are a one-to-one matching: no folder1 path is the
\* from-path of two pairs, no folder2 path the to-path of two pairs; and every
\* digest that is a key of the folder1 map has a non-empty candidate list,
\* so the pop of the first candidate of a digest found in the map succeeds.
C22_PairsOneToOne ==
    /\ \A j, k \in DOMAIN changed_files :
           j # k => /\ changed_files[j][1] # changed_files[k][1]
                    /\ changed_files[j][2] # changed_files[k][2]
    /\ \A d \in DOMAIN hash_to_files1 : hash_to_files1[d] # <<>>

\* The only candidate of a digest was popped and its key deleted, and the
\* next folder2 file to look up has that same digest.
C22_Witness ==
    /\ pc = "hash2"
    /\ Len(changed_files) = 1
    /\ idx <= Len(order2)
    /\ ReadableB(order2[idx])
    /\ DigestB(order2[idx]) = DigestA(changed_files[1][1])
    /\ DigestB(order2[idx]) \notin DOMAIN hash_to_files1

\* C23: for every digest the number of rename pairs with that digest is the
\* smaller of the numbers of readable one-sided files of folder1 and of
\* folder2 that have it; so no readable file left in folder1's list has the
\* digest of a readable file left in folder2's, and the pairs and the
\* remaining files of a folder add up to its one-sided files.
PairsWithDigest(d) ==
    {k \in DOMAIN changed_files : DigestA(changed_files[k][1]) = d}

C23_MatchingMaximalPerDigest ==
    Detected =>
        /\ \A d \in OneSidedDigests :
               Cardinality(PairsWithDigest(d))
                   = Min(Len(CandidatesA(d)), Len(CandidatesB(d)))
        /\ \A a \in Range(only_in_folder1), b \in Range(only_in_folder2) :
               ~(ReadableA(a) /\ ReadableB(b) /\ DigestA(a) = DigestB(b))
        /\ Len(changed_files) + Len(only_in_folder1) = Cardinality(OnlyFilesA)
        /\ Len(changed_files) + Len(only_in_folder2) = Cardinality(OnlyFilesB)

\* One folder has more files of a digest than the other: one is paired, the
\* other stays one-sided.
C23_Witness ==
    /\ pc = "done"
    /\ Len(changed_files) = 1
    /\ \E d \in OneSidedDigests :
           Len(CandidatesA(d)) + Len(CandidatesB(d)) = 3
    /\ Len(only_in_folder1) + Len(only_in_folder2) = 1

\* C24: all through the loop over the common files total_checked is the sum
\* of the lengths of the identical, different and failed lists, the three
\* lists are pairwise disjoint and each ascending; after the loop
\* total_checked is the number of files present in both folders, and no
\* one-sided or renamed file is ever counted.
Ascending(s) == \A j, k \in DOMAIN s : j < k => s[j] < s[k]

Counted ==
    Range(identical_files) \cup Range(different_files)
    \cup Range(failed_comparisons)

C24_TotalCheckedInvariant ==
    /\ total_checked = Len(identical_files) + Len(different_files)
                          + Len(failed_comparisons)
    /\ Range(identical_files) \cap Range(different_files) = {}
    /\ Range(identical_files) \cap Range(failed_comparisons) = {}
    /\ Range(different_files) \cap Range(failed_comparisons) = {}
    /\ Ascending(identical_files)
    /\ Ascending(different_files)
    /\ Ascending(failed_comparisons)
    /\ pc = "compare" => total_checked = idx - 1
    /\ pc \in {"hash1", "hash2", "report", "done"} =>
           total_checked = Cardinality(CommonFiles)
    /\ pc = "done" => summary.total_checked = Cardinality(CommonFiles)
    /\ Counted \cap (OnlyFilesA \cup OnlyFilesB) = {}
    /\ Counted \cap (RenamedFrom \cup RenamedTo) = {}

\* In the middle of the loop: one common file is classified, one is still
\* to be compared, and a one-sided file exists.
C24_Witness ==
    /\ pc = "compare"
    /\ idx = 2
    /\ Len(common_files) = 2
    /\ total_checked = 1
    /\ Len(only_in_folder1) + Len(only_in_folder2) = 1

\* C25: in alpha_3.py changed_names holds exactly the pairs (f1, f2) of a
\* one-sided file of folder1 and a one-sided file of folder2 whose names
\* have the same extension, each pair once, whatever the bytes of the two
\* files; a path can be in several pairs, and every path of a pair is still
\* in its folder's one-sided list and has its "Extra" row in the report.
SameSuffixPairs ==
    {pr \in OnlyFilesA \X OnlyFilesB : suffix[pr[1]] = suffix[pr[2]]}

HasRow(path, status, location) ==
    \E k \in DOMAIN all_entries :
        /\ all_entries[k].type = "File"
        /\ all_entries[k].path = path
        /\ all_entries[k].status = status
        /\ all_entries[k].location = location

C25_PairsByExtensionNotConsuming ==
    pc \in {"report", "done"} =>
        /\ Range(changed_names) = SameSuffixPairs
        /\ Len(changed_names) = Cardinality(SameSuffixPairs)
        /\ \A k \in DOMAIN changed_names :
               /\ changed_names[k][1] \in Range(only_files_in_folder1)
               /\ changed_names[k][2] \in Range(only_files_in_folder2)
               /\ pc = "done" =>
                      /\ HasRow(changed_names[k][1], "Extra", "folder1")
                      /\ HasRow(changed_names[k][2], "Extra", "folder2")
                      /\ HasRow(changed_names[k][1], "Renamed", "folder1")

\* One file of folder1 is paired with two files of folder2, one of them with
\* other bytes than its own.
C25_Witness ==
    /\ pc = "done"
    /\ \E j, k \in DOMAIN changed_names :
           /\ j # k
           /\ changed_names[j][1] = changed_names[k][1]
           /\ tree1[changed_names[j][1]] # tree2[changed_names[j][2]]

====
